---- MODULE Spec2Model ----
(***************************************************************************)
(* Model of image_puller/main.go: pull an image, create a temporary        *)
(* container, export its filesystem as a tar stream, unpack the stream     *)
(* into the rootfs directory and remove the container.                     *)
(*                                                                         *)
(* Strings that the program splits or joins are sequences: an image        *)
(* string is a sequence of one-character strings, a file path is the       *)
(* sequence of its components ("/d/a" is <<"d","a">>, "/" is <<>>) and a   *)
(* tar header name "a/../b" is <<"a","..","b">>.                           *)
(***************************************************************************)
EXTENDS Integers, Sequences, FiniteSets, TLC

(***************************************************************************)
(* Bounds                                                                  *)
(***************************************************************************)
MaxImageLen == 3
MaxStream == 3
MaxEntries == 1
MaxFsEntries == 2
MaxStreamFs == 1

(***************************************************************************)
(* Generic helpers                                                         *)
(***************************************************************************)
\* the sequences over S of length k, and of length at most n
RECURSIVE SeqsOfLen(_, _)
SeqsOfLen(S, k) ==
    IF k = 0 THEN {<<>>}
    ELSE {Append(s, x) : s \in SeqsOfLen(S, k - 1), x \in S}

SeqsUpTo(S, n) == UNION {SeqsOfLen(S, k) : k \in 0..n}

Front(s) == SubSeq(s, 1, Len(s) - 1)

Bit(n, i) == (n \div (2 ^ i)) % 2

\* the permission bits written 0ugo in the source
Octal(u, g, o) == u * 64 + g * 8 + o

RECURSIVE AndNotBits(_, _, _)
AndNotBits(m, k, i) ==
    IF i < 0 THEN 0
    ELSE (2 ^ i) * Bit(m, i) * (1 - Bit(k, i)) + AndNotBits(m, k, i - 1)

\* perm &^ umask on the twelve mode bits, as the kernel applies the umask
AndNot(m, k) == AndNotBits(m, k, 11)

(***************************************************************************)
(* parseImage (main.go:50-63)                                              *)
(***************************************************************************)
\* strings.Split(s, ":"): the chunks between the separators, always >= 1
RECURSIVE SplitFrom(_, _, _)
SplitFrom(s, cur, acc) ==
    IF s = <<>> THEN Append(acc, cur)
    ELSE IF Head(s) = ":" THEN SplitFrom(Tail(s), <<>>, Append(acc, cur))
    ELSE SplitFrom(Tail(s), Append(cur, Head(s)), acc)

Split(s) == SplitFrom(s, <<>>, <<>>)

ErrEmptyImage == "image name must be non-empty"
ErrInvalidImage == "invalid image name; expect <image:tag>"

\* variant: the tag is lost
parseImageTagDropped(imageStr) ==
    LET chunks == Split(imageStr) IN
    IF Len(imageStr) = 0
    THEN [name |-> <<>>, tag |-> <<>>, err |-> ErrEmptyImage]
    ELSE IF Len(chunks) \in {1, 2} THEN [name |-> chunks[1], tag |-> <<>>, err |-> ""]
    ELSE [name |-> <<>>, tag |-> <<>>, err |-> ErrInvalidImage]

parseImage(imageStr) ==
    LET chunks == Split(imageStr) IN
    IF Len(imageStr) = 0
    THEN [name |-> <<>>, tag |-> <<>>, err |-> ErrEmptyImage]
    ELSE IF Len(chunks) = 1 THEN [name |-> chunks[1], tag |-> <<>>, err |-> ""]
    ELSE IF Len(chunks) = 2 THEN [name |-> chunks[1], tag |-> chunks[2], err |-> ""]
    ELSE [name |-> <<>>, tag |-> <<>>, err |-> ErrInvalidImage]

(***************************************************************************)
(* The file system seen through package os.  fs maps every existing        *)
(* absolute path to its node; "/" always exists.  The process owns every   *)
(* node, so only the owner permission bits count, and a privileged         *)
(* process (isRoot) passes every permission check.                         *)
(***************************************************************************)
Node(kind, mode, content) == [kind |-> kind, mode |-> mode, content |-> content]

Result(f, e) == [fs |-> f, err |-> e]

CanWrite(mode, root) == root \/ Bit(mode, 7) = 1
CanSearch(mode, root) == root \/ Bit(mode, 6) = 1

\* os.Stat(p): "" when p exists and is reachable, else the errno
RECURSIVE Stat(_, _, _)
Stat(f, p, root) ==
    IF p = <<>> THEN ""
    ELSE LET par == Front(p)
             r == Stat(f, par, root) IN
         IF r # "" THEN r
         ELSE IF f[par].kind # "dir" THEN "ENOTDIR"
         ELSE IF ~CanSearch(f[par].mode, root) THEN "EACCES"
         ELSE IF p \in DOMAIN f THEN ""
         ELSE "ENOENT"

\* os.IsNotExist(err)
IsNotExist(e) == e = "ENOENT"

\* os.Mkdir(p, perm): creates exactly the last component
Mkdir(f, p, perm, root, um) ==
    IF p = <<>> THEN Result(f, "EEXIST")
    ELSE LET par == Front(p)
             r == Stat(f, par, root) IN
         IF r # "" THEN Result(f, r)
         ELSE IF f[par].kind # "dir" THEN Result(f, "ENOTDIR")
         ELSE IF ~CanSearch(f[par].mode, root) THEN Result(f, "EACCES")
         ELSE IF p \in DOMAIN f THEN Result(f, "EEXIST")
         ELSE IF ~CanWrite(f[par].mode, root) THEN Result(f, "EACCES")
         ELSE Result((p :> Node("dir", AndNot(perm, um), "")) @@ f, "")

\* os.MkdirAll(p, perm): every missing ancestor is created with perm
RECURSIVE MkdirAll(_, _, _, _, _)
MkdirAll(f, p, perm, root, um) ==
    IF Stat(f, p, root) = ""
    THEN IF f[p].kind = "dir" THEN Result(f, "") ELSE Result(f, "ENOTDIR")
    ELSE LET pr == IF Len(p) > 1 THEN MkdirAll(f, Front(p), perm, root, um)
                   ELSE Result(f, "")
         IN IF pr.err # "" THEN pr
            ELSE LET m == Mkdir(pr.fs, p, perm, root, um) IN
                 IF m.err # "" /\ Stat(m.fs, p, root) = "" /\ m.fs[p].kind = "dir"
                 THEN Result(m.fs, "")
                 ELSE m

\* variant: the missing parents of the file are created first
OpenFileCreatesParents(f, p, perm, root, um) ==
    LET g == IF Len(p) > 1
             THEN MkdirAll(f, Front(p), Octal(7, 5, 5), root, um).fs
             ELSE f
        r == Stat(g, p, root)
    IN
    IF r = ""
    THEN IF g[p].kind = "dir" THEN Result(g, "EISDIR")
         ELSE IF ~CanWrite(g[p].mode, root) THEN Result(g, "EACCES")
         ELSE Result([g EXCEPT ![p].content = ""], "")
    ELSE IF r = "ENOENT" /\ Stat(g, Front(p), root) = ""
    THEN IF ~CanWrite(g[Front(p)].mode, root) THEN Result(g, "EACCES")
         ELSE Result((p :> Node("file", AndNot(perm, um), "")) @@ g, "")
    ELSE Result(g, r)

\* os.OpenFile(p, O_CREATE|O_TRUNC|O_WRONLY, perm)
OpenFile(f, p, perm, root, um) ==
    LET r == Stat(f, p, root) IN
    IF r = ""
    THEN IF f[p].kind = "dir" THEN Result(f, "EISDIR")
         ELSE IF ~CanWrite(f[p].mode, root) THEN Result(f, "EACCES")
         ELSE Result([f EXCEPT ![p].content = ""], "")
    ELSE IF r = "ENOENT" /\ Stat(f, Front(p), root) = ""
    THEN IF ~CanWrite(f[Front(p)].mode, root) THEN Result(f, "EACCES")
         ELSE Result((p :> Node("file", AndNot(perm, um), "")) @@ f, "")
    ELSE Result(f, r)

\* filepath.Join(dest, name): concatenate, then Clean; ".." above "/" is "/"
RECURSIVE Join(_, _)
Join(acc, rel) ==
    IF rel = <<>> THEN acc
    ELSE LET c == Head(rel) IN
         Join(IF c = ".." THEN (IF acc = <<>> THEN <<>> ELSE Front(acc))
              ELSE IF c \in {".", ""} THEN acc
              ELSE Append(acc, c),
              Tail(rel))

(***************************************************************************)
(* ensureRootfsDir (main.go:164-177)                                       *)
(***************************************************************************)
ErrNotDir == "path is not a directory"
ErrStat == "unable to stat the given directory"

RootfsPerm == Octal(7, 5, 5)

\* variant: a missing directory is accepted without being created
ensureRootfsDirNoCreate(f, path, root, um) ==
    LET e == Stat(f, path, root) IN
    IF e # ""
    THEN IF IsNotExist(e) THEN Result(f, "")
         ELSE Result(f, ErrStat)
    ELSE IF f[path].kind # "dir" THEN Result(f, ErrNotDir)
    ELSE Result(f, "")

ensureRootfsDir(f, path, root, um) ==
    LET e == Stat(f, path, root) IN
    IF e # ""
    THEN IF IsNotExist(e) THEN Mkdir(f, path, RootfsPerm, root, um)
         ELSE Result(f, ErrStat)
    ELSE IF f[path].kind # "dir" THEN Result(f, ErrNotDir)
    ELSE Result(f, "")

(***************************************************************************)
(* untar (main.go:115-145), one iteration of its loop                      *)
(***************************************************************************)
ErrCopy == "unexpected EOF"
ErrHeader == "archive/tar: invalid tar header"

Entry(name, isDir, mode, content) ==
    [name |-> name, isDir |-> isDir, mode |-> mode, content |-> content]

UntarResult(f, e, opened, path) ==
    [fs |-> f, err |-> e, opened |-> opened, path |-> path]

\* variant: a directory entry replaces a file that is in its place
untarEntryReplacesFile(f, dest, h, dataOK, root, um) ==
    LET path == Join(dest, h.name) IN
    IF h.isDir
    THEN IF Stat(f, path, root) = "" /\ f[path].kind = "file"
         THEN UntarResult([f EXCEPT ![path] = Node("dir", AndNot(h.mode, um), "")],
                          "", FALSE, path)
         ELSE LET r == MkdirAll(f, path, h.mode, root, um) IN
              UntarResult(r.fs, r.err, FALSE, path)
    ELSE LET o == OpenFile(f, path, h.mode, root, um) IN
         IF o.err # "" THEN UntarResult(o.fs, o.err, FALSE, path)
         ELSE IF dataOK
         THEN UntarResult([o.fs EXCEPT ![path].content = h.content], "", TRUE, path)
         ELSE UntarResult(o.fs, ErrCopy, TRUE, path)

\* header is the entry read by tarReader.Next(); dataOK tells whether the
\* entry's data can be read to its end (io.Copy succeeds)
untarEntry(f, dest, h, dataOK, root, um) ==
    LET path == Join(dest, h.name) IN
    IF h.isDir
    THEN LET r == MkdirAll(f, path, h.mode, root, um) IN
         UntarResult(r.fs, r.err, FALSE, path)
    ELSE LET o == OpenFile(f, path, h.mode, root, um) IN
         IF o.err # "" THEN UntarResult(o.fs, o.err, FALSE, path)
         ELSE IF dataOK
         THEN UntarResult([o.fs EXCEPT ![path].content = h.content], "", TRUE, path)
         ELSE UntarResult(o.fs, ErrCopy, TRUE, path)

DataOK(a, i) == ~(i = Len(a.entries) /\ a.end = "cutData")

\* untar as a whole, from entry i on: the file system it leaves, the error
\* it returns and the number of entries it read
RECURSIVE untarFrom(_, _, _, _, _, _)
untarFrom(f, dest, a, i, root, um) ==
    IF i > Len(a.entries)
    THEN [fs |-> f, err |-> IF a.end = "EOF" THEN "" ELSE ErrHeader, pos |-> i - 1]
    ELSE LET r == untarEntry(f, dest, a.entries[i], DataOK(a, i), root, um) IN
         IF r.err # "" THEN [fs |-> r.fs, err |-> r.err, pos |-> i]
         ELSE untarFrom(r.fs, dest, a, i + 1, root, um)

untar(f, dest, a, root, um) == untarFrom(f, dest, a, 1, root, um)

(***************************************************************************)
(* Inputs                                                                  *)
(***************************************************************************)
ImageChars == {"a", ":"}
ImageStrs == SeqsUpTo(ImageChars, MaxImageLen)

\* a progress message is "ok", carries the embedded error e1 or e2, or is
\* "bad": bytes that json.Decoder cannot decode
MsgErrors == {"e1", "e2"}
Msgs == {"ok", "bad", "e1", "e2"}
Streams(n) == SeqsUpTo(Msgs, n)

UUIDs == {"u1"}
ContainerIDs == {"c1", "c2"}

DirPerm == Octal(7, 5, 5)
RoDirPerm == Octal(5, 5, 5)
FilePerm == Octal(6, 6, 6)
RoFilePerm == Octal(4, 4, 4)
OldFilePerm == Octal(6, 4, 4)
UmaskDefault == Octal(0, 2, 2)

EntryNames == {<<"a">>, <<"a", "b">>, <<"..", "e">>}

\* what an entry is besides its name
EntryKinds ==
    {[isDir |-> TRUE, mode |-> DirPerm, content |-> ""],
     [isDir |-> TRUE, mode |-> RoDirPerm, content |-> ""],
     [isDir |-> FALSE, mode |-> FilePerm, content |-> "x"],
     [isDir |-> FALSE, mode |-> RoFilePerm, content |-> "y"]}

FsEntries ==
    {Entry(n, k.isDir, k.mode, k.content) : n \in EntryNames, k \in EntryKinds}

MainEntries ==
    {Entry(<<"a">>, TRUE, DirPerm, ""), Entry(<<"a">>, FALSE, FilePerm, "x"),
     Entry(<<"..", "e">>, FALSE, FilePerm, "x")}

\* an exported stream: its entries and how it ends: at the end-of-archive
\* marker, cut inside a header, or cut inside the data of its last entry
Archives(E, n) ==
    {a \in [entries : SeqsUpTo(E, n), end : {"EOF", "cutHeader", "cutData"}] :
        a.end = "cutData" =>
            /\ a.entries # <<>>
            /\ ~a.entries[Len(a.entries)].isDir}

RootNode == Node("dir", DirPerm, "")
Tree(nodes) == nodes @@ (<<>> :> RootNode)

\* the rootfs-dir flag and the file system the program starts in
Scenarios ==
    { [dest |-> <<"d">>, fs |-> Tree(<<>>)],
      [dest |-> <<"d">>, fs |-> Tree(<<"d">> :> Node("file", OldFilePerm, "z"))],
      [dest |-> <<"d">>, fs |-> Tree(<<"d">> :> Node("dir", DirPerm, ""))],
      [dest |-> <<"d">>, fs |-> Tree(<<"d">> :> Node("dir", RoDirPerm, ""))],
      [dest |-> <<"d">>, fs |-> Tree((<<"d">> :> Node("dir", DirPerm, ""))
                                     @@ (<<"d", "a">> :> Node("file", OldFilePerm, "z"))
                                     @@ (<<"e">> :> Node("file", OldFilePerm, "z")))],
      [dest |-> <<"m", "d">>, fs |-> Tree(<<>>)],
      [dest |-> <<"m", "d">>, fs |-> Tree(<<"m">> :> Node("file", OldFilePerm, "z"))],
      [dest |-> <<"m", "d">>, fs |-> Tree(<<"m">> :> Node("dir", RoDirPerm, ""))],
      [dest |-> <<"m", "d">>, fs |-> Tree(<<"m">> :> Node("dir", DirPerm, ""))] }

(***************************************************************************)
(* State                                                                   *)
(***************************************************************************)
VARIABLES
    image,        \* flag -image
    rootfsDir,    \* flag -rootfs-dir
    fs,           \* the file system
    fs0,          \* the file system when the program started
    isRoot,       \* the process is privileged
    umask,        \* the process's file mode creation mask
    pc,           \* position of main
    parsed,       \* pullImage: result of parseImage
    pullStream,   \* pullImage: the progress stream resp
    pullPos,      \* pullImage: messages decoded so far
    pullOpened,   \* ImagePull returned a stream
    pullCloses,   \* times resp.Close() ran
    cName,        \* main: the container name
    cID,          \* main: the id CreateContainer returned
    runtimeIDs,   \* the ids the runtime assigned to the containers it created
    tarStream,    \* exportContainer: the exported stream in
    tarPos,       \* untar: entries read so far
    exportOpened, \* ContainerExport returned a stream
    exportCloses, \* times in.Close() ran
    handles,      \* untar: the files opened, with the times each was closed
    untarRuns,    \* what each call of untar left: the file system and its error
    calls,        \* the requests sent to the container runtime, in order
    exitCode,     \* process exit status, -1 while running
    fatal,        \* what glog.Fatalf reported
    warnings      \* what glog.Warningf reported

vars == <<image, rootfsDir, fs, fs0, isRoot, umask, pc, parsed, pullStream,
          pullPos, pullOpened, pullCloses, cName, cID, runtimeIDs, tarStream,
          tarPos,
          exportOpened, exportCloses, handles, untarRuns, calls, exitCode,
          fatal, warnings>>

inputVars == <<image, fs0, isRoot, umask>>
idVars == <<cName, cID, runtimeIDs>>
pullVars == <<parsed, pullStream, pullPos, pullOpened, pullCloses>>
exportVars == <<tarStream, tarPos, exportOpened, exportCloses, handles,
                untarRuns>>

NoParse == [name |-> <<>>, tag |-> <<>>, err |-> "unparsed"]
NoArchive == [entries |-> <<>>, end |-> "EOF"]
NoFatal == [step |-> "", err |-> <<>>]

Call(op, a, b, force) == [op |-> op, a |-> a, b |-> b, force |-> force]

InitWith(images, roots, umasks) ==
    /\ image \in images
    /\ \E s \in Scenarios : rootfsDir = s.dest /\ fs = s.fs /\ fs0 = s.fs
    /\ isRoot \in roots
    /\ umask \in umasks
    /\ pc = "start"
    /\ parsed = NoParse
    /\ pullStream = <<>>
    /\ pullPos = 0
    /\ pullOpened = FALSE
    /\ pullCloses = 0
    /\ cName = ""
    /\ cID = ""
    /\ runtimeIDs = <<>>
    /\ tarStream = NoArchive
    /\ tarPos = 0
    /\ exportOpened = FALSE
    /\ exportCloses = 0
    /\ handles = <<>>
    /\ untarRuns = <<>>
    /\ calls = <<>>
    /\ exitCode = -1
    /\ fatal = NoFatal
    /\ warnings = <<>>

Init == InitWith(ImageStrs, BOOLEAN, {UmaskDefault})

(***************************************************************************)
(* glog.Fatalf: report and os.Exit(255); deferred calls do not run         *)
(***************************************************************************)
FatalExit == 255

Fatalf(step, err) ==
    /\ pc' = "fatal"
    /\ exitCode' = FatalExit
    /\ fatal' = [step |-> step, err |-> err]

Running == UNCHANGED <<exitCode, fatal>>

ErrImagePull == "ImagePull failed"
ErrDecode == "json: cannot decode"
ErrCreate == "ContainerCreate failed"
ErrExport == "ContainerExport failed"
ErrRemove == "ContainerRemove failed"

(***************************************************************************)
(* main.go:197-200 with pullImage up to the decode loop (main.go:65-82)    *)
(***************************************************************************)
PullImageFrom(streams) ==
    /\ pc = "start"
    /\ LET p == parseImage(image) IN
       /\ parsed' = p
       /\ IF p.err # ""
          THEN /\ Fatalf("pull", <<p.err>>)
               /\ UNCHANGED <<calls, pullStream, pullOpened>>
          ELSE /\ calls' = Append(calls, Call("ImagePull", p.name, p.tag, FALSE))
               /\ \/ /\ Fatalf("pull", <<ErrImagePull>>)
                     /\ UNCHANGED <<pullStream, pullOpened>>
                  \/ /\ \E s \in streams : pullStream' = s
                     /\ pullOpened' = TRUE
                     /\ pc' = "decoding"
                     /\ Running
    /\ UNCHANGED <<inputVars, fs, rootfsDir, pullPos, pullCloses, idVars,
                   exportVars, warnings>>

(***************************************************************************)
(* One iteration of pullImage's decode loop (main.go:83-96); returning     *)
(* runs the deferred resp.Close() and main's check (main.go:198-201)       *)
(***************************************************************************)
\* variant: an embedded error is reported only at the end of the stream
DecodeLastErrorWins ==
    /\ pc = "decoding"
    /\ IF pullPos = Len(pullStream)
       THEN /\ pullCloses' = pullCloses + 1
            /\ IF \E i \in 1..Len(pullStream) : pullStream[i] \in MsgErrors
               THEN Fatalf("pull", <<pullStream[CHOOSE i \in 1..Len(pullStream) :
                        /\ pullStream[i] \in MsgErrors
                        /\ \A j \in (i+1)..Len(pullStream) : pullStream[j] \notin MsgErrors]>>)
               ELSE pc' = "pulled" /\ Running
            /\ UNCHANGED pullPos
       ELSE LET msg == pullStream[pullPos + 1] IN
            /\ pullPos' = pullPos + 1
            /\ IF msg = "bad"
               THEN /\ pullCloses' = pullCloses + 1
                    /\ Fatalf("pull", <<ErrDecode>>)
               ELSE /\ UNCHANGED <<pc, pullCloses>>
                    /\ Running
    /\ UNCHANGED <<inputVars, fs, rootfsDir, parsed, pullStream, pullOpened,
                   idVars, exportVars, calls, warnings>>

\* variant: embedded errors are not looked at
DecodeIgnoresMsgError ==
    /\ pc = "decoding"
    /\ IF pullPos = Len(pullStream)
       THEN /\ pullCloses' = pullCloses + 1
            /\ pc' = "pulled"
            /\ Running
            /\ UNCHANGED pullPos
       ELSE LET msg == pullStream[pullPos + 1] IN
            /\ pullPos' = pullPos + 1
            /\ IF msg = "bad"
               THEN /\ pullCloses' = pullCloses + 1
                    /\ Fatalf("pull", <<ErrDecode>>)
               ELSE /\ UNCHANGED <<pc, pullCloses>>
                    /\ Running
    /\ UNCHANGED <<inputVars, fs, rootfsDir, parsed, pullStream, pullOpened,
                   idVars, exportVars, calls, warnings>>

\* variant: resp is closed after the loop instead of by a deferred call
DecodeClosesAfterLoop ==
    /\ pc = "decoding"
    /\ IF pullPos = Len(pullStream)
       THEN /\ pullCloses' = pullCloses + 1
            /\ pc' = "pulled"
            /\ Running
            /\ UNCHANGED pullPos
       ELSE LET msg == pullStream[pullPos + 1] IN
            /\ pullPos' = pullPos + 1
            /\ UNCHANGED pullCloses
            /\ IF msg = "bad"
               THEN Fatalf("pull", <<ErrDecode>>)
               ELSE IF msg \in MsgErrors
               THEN Fatalf("pull", <<msg>>)
               ELSE /\ UNCHANGED pc
                    /\ Running
    /\ UNCHANGED <<inputVars, fs, rootfsDir, parsed, pullStream, pullOpened,
                   idVars, exportVars, calls, warnings>>

\* variant: a progress message without error is not consumed
DecodeStuckOnProgress ==
    /\ pc = "decoding"
    /\ IF pullPos = Len(pullStream)
       THEN /\ pullCloses' = pullCloses + 1
            /\ pc' = "pulled"
            /\ Running
            /\ UNCHANGED pullPos
       ELSE LET msg == pullStream[pullPos + 1] IN
            IF msg = "bad"
            THEN /\ pullPos' = pullPos + 1
                 /\ pullCloses' = pullCloses + 1
                 /\ Fatalf("pull", <<ErrDecode>>)
            ELSE IF msg \in MsgErrors
            THEN /\ pullPos' = pullPos + 1
                 /\ pullCloses' = pullCloses + 1
                 /\ Fatalf("pull", <<msg>>)
            ELSE /\ UNCHANGED <<pc, pullPos, pullCloses>>
                 /\ Running
    /\ UNCHANGED <<inputVars, fs, rootfsDir, parsed, pullStream, pullOpened,
                   idVars, exportVars, calls, warnings>>

Decode ==
    /\ pc = "decoding"
    /\ IF pullPos = Len(pullStream)
       THEN \* io.EOF: break, return nil
            /\ pullCloses' = pullCloses + 1
            /\ pc' = "pulled"
            /\ Running
            /\ UNCHANGED pullPos
       ELSE LET msg == pullStream[pullPos + 1] IN
            /\ pullPos' = pullPos + 1
            /\ IF msg = "bad"
               THEN /\ pullCloses' = pullCloses + 1
                    /\ Fatalf("pull", <<ErrDecode>>)
               ELSE IF msg \in MsgErrors
               THEN /\ pullCloses' = pullCloses + 1
                    /\ Fatalf("pull", <<msg>>)
               ELSE /\ UNCHANGED <<pc, pullCloses>>
                    /\ Running
    /\ UNCHANGED <<inputVars, fs, rootfsDir, parsed, pullStream, pullOpened,
                   idVars, exportVars, calls, warnings>>

(***************************************************************************)
(* main.go:204-207                                                         *)
(***************************************************************************)
EnsureRootfsDir ==
    /\ pc = "pulled"
    /\ LET r == ensureRootfsDir(fs, rootfsDir, isRoot, umask) IN
       /\ fs' = r.fs
       /\ IF r.err # ""
          THEN Fatalf("rootfs", <<r.err>>)
          ELSE pc' = "ensured" /\ Running
    /\ UNCHANGED <<inputVars, rootfsDir, pullVars, idVars, exportVars,
                   calls, warnings>>

(***************************************************************************)
(* main.go:213-226 with createContainer (main.go:99-113); on success the   *)
(* removal of the container is deferred                                    *)
(***************************************************************************)
\* variant: a failed creation is not checked
CreateContainerUnchecked ==
    /\ pc = "ensured"
    /\ \E n \in UUIDs :
         /\ cName' = n
         /\ calls' = Append(calls, Call("ContainerCreate", <<n>>, image, FALSE))
    /\ \/ UNCHANGED <<cID, runtimeIDs>>
       \/ \E id \in ContainerIDs :
             /\ cID' = id
             /\ runtimeIDs' = Append(runtimeIDs, id)
    /\ pc' = "created"
    /\ Running
    /\ UNCHANGED <<inputVars, fs, rootfsDir, pullVars, exportVars, warnings>>

CreateContainer ==
    /\ pc = "ensured"
    /\ \E n \in UUIDs :
         /\ cName' = n
         /\ calls' = Append(calls, Call("ContainerCreate", <<n>>, image, FALSE))
    /\ \/ /\ Fatalf("create", <<"failed to create container", ErrCreate>>)
          /\ UNCHANGED <<cID, runtimeIDs>>
       \/ /\ \E id \in ContainerIDs :
                /\ cID' = id
                /\ runtimeIDs' = Append(runtimeIDs, id)
          /\ pc' = "created"
          /\ Running
    /\ UNCHANGED <<inputVars, fs, rootfsDir, pullVars, exportVars, warnings>>

(***************************************************************************)
(* main.go:229 with exportContainer up to the call of untar                *)
(* (main.go:151-156)                                                       *)
(***************************************************************************)
ExportContainerFrom(archives) ==
    /\ pc = "created"
    /\ calls' = Append(calls, Call("ContainerExport", <<cID>>, <<>>, FALSE))
    /\ \/ /\ Fatalf("export", <<"failed to export container", ErrExport>>)
          /\ UNCHANGED <<tarStream, exportOpened>>
       \/ /\ \E a \in archives : tarStream' = a
          /\ exportOpened' = TRUE
          /\ pc' = "untar"
          /\ Running
    /\ UNCHANGED <<inputVars, fs, rootfsDir, pullVars, idVars, tarPos,
                   exportCloses, handles, untarRuns, warnings>>

(***************************************************************************)
(* One iteration of untar's loop (main.go:117-143).  When untar returns,   *)
(* its deferred file.Close() calls run, then exportContainer's deferred    *)
(* in.Close() (main.go:156-161), then main's check (main.go:229-232).      *)
(***************************************************************************)
CloseAll(hs) == [i \in 1..Len(hs) |-> [hs[i] EXCEPT !.closes = @ + 1]]

UntarReturns(f, e) == Append(untarRuns, [fs |-> f, err |-> e])

\* variant: an entry that fails is skipped and the loop goes on
UntarSkipsFailedEntry ==
    /\ pc = "untar"
    /\ IF tarPos = Len(tarStream.entries)
       THEN /\ handles' = CloseAll(handles)
            /\ exportCloses' = exportCloses + 1
            /\ UNCHANGED <<fs, tarPos>>
            /\ IF tarStream.end = "EOF"
               THEN /\ untarRuns' = UntarReturns(fs, "")
                    /\ pc' = "exported"
                    /\ Running
               ELSE /\ untarRuns' = UntarReturns(fs, ErrHeader)
                    /\ Fatalf("export", <<"failed to untar", ErrHeader>>)
       ELSE LET h == tarStream.entries[tarPos + 1]
                dataOK == DataOK(tarStream, tarPos + 1)
                r == untarEntry(fs, rootfsDir, h, dataOK, isRoot, umask)
                hs == IF r.opened
                      THEN Append(handles, [path |-> r.path, closes |-> 0])
                      ELSE handles
            IN  /\ fs' = r.fs
                /\ tarPos' = tarPos + 1
                /\ handles' = hs
                /\ UNCHANGED <<pc, exportCloses, untarRuns>>
                /\ Running
    /\ UNCHANGED <<inputVars, rootfsDir, pullVars, idVars, tarStream,
                   exportOpened, calls, warnings>>

\* variant: the files are closed only where untar returns nil
UntarLeaksOnError ==
    /\ pc = "untar"
    /\ IF tarPos = Len(tarStream.entries)
       THEN /\ exportCloses' = exportCloses + 1
            /\ UNCHANGED <<fs, tarPos>>
            /\ IF tarStream.end = "EOF"
               THEN /\ handles' = CloseAll(handles)
                    /\ untarRuns' = UntarReturns(fs, "")
                    /\ pc' = "exported"
                    /\ Running
               ELSE /\ UNCHANGED handles
                    /\ untarRuns' = UntarReturns(fs, ErrHeader)
                    /\ Fatalf("export", <<"failed to untar", ErrHeader>>)
       ELSE LET h == tarStream.entries[tarPos + 1]
                dataOK == DataOK(tarStream, tarPos + 1)
                r == untarEntry(fs, rootfsDir, h, dataOK, isRoot, umask)
                hs == IF r.opened
                      THEN Append(handles, [path |-> r.path, closes |-> 0])
                      ELSE handles
            IN  /\ fs' = r.fs
                /\ tarPos' = tarPos + 1
                /\ handles' = hs
                /\ IF r.err # ""
                   THEN /\ exportCloses' = exportCloses + 1
                        /\ untarRuns' = UntarReturns(r.fs, r.err)
                        /\ Fatalf("export", <<"failed to untar", r.err>>)
                   ELSE /\ UNCHANGED <<pc, exportCloses, untarRuns>>
                        /\ Running
    /\ UNCHANGED <<inputVars, rootfsDir, pullVars, idVars, tarStream,
                   exportOpened, calls, warnings>>

Untar ==
    /\ pc = "untar"
    /\ IF tarPos = Len(tarStream.entries)
       THEN /\ handles' = CloseAll(handles)
            /\ exportCloses' = exportCloses + 1
            /\ UNCHANGED <<fs, tarPos>>
            /\ IF tarStream.end = "EOF"
               THEN /\ untarRuns' = UntarReturns(fs, "")
                    /\ pc' = "exported"
                    /\ Running
               ELSE /\ untarRuns' = UntarReturns(fs, ErrHeader)
                    /\ Fatalf("export", <<"failed to untar", ErrHeader>>)
       ELSE LET h == tarStream.entries[tarPos + 1]
                dataOK == DataOK(tarStream, tarPos + 1)
                r == untarEntry(fs, rootfsDir, h, dataOK, isRoot, umask)
                hs == IF r.opened
                      THEN Append(handles, [path |-> r.path, closes |-> 0])
                      ELSE handles
            IN  /\ fs' = r.fs
                /\ tarPos' = tarPos + 1
                /\ IF r.err # ""
                   THEN /\ handles' = CloseAll(hs)
                        /\ exportCloses' = exportCloses + 1
                        /\ untarRuns' = UntarReturns(r.fs, r.err)
                        /\ Fatalf("export", <<"failed to untar", r.err>>)
                   ELSE /\ handles' = hs
                        /\ UNCHANGED <<pc, exportCloses, untarRuns>>
                        /\ Running
    /\ UNCHANGED <<inputVars, rootfsDir, pullVars, idVars, tarStream,
                   exportOpened, calls, warnings>>

(***************************************************************************)
(* main returns (main.go:232-233): the deferred function (main.go:219-226) *)
(* removes the container, then the process exits with status 0             *)
(***************************************************************************)
\* variant: the container is named by the name it was created with
removeContainerByName(id, name) == Call("ContainerRemove", <<name>>, <<>>, TRUE)

\* removeContainer (main.go:147-149): the request it sends
removeContainer(id, name) == Call("ContainerRemove", <<id>>, <<>>, TRUE)

\* variant: a failed removal is fatal
MainReturnRemoveFatal ==
    /\ pc = "exported"
    /\ calls' = Append(calls, removeContainer(cID, cName))
    /\ \/ /\ Fatalf("remove", <<"Unable to remove the temporary container", ErrRemove>>)
          /\ UNCHANGED warnings
       \/ /\ UNCHANGED <<warnings, fatal>>
          /\ pc' = "done"
          /\ exitCode' = 0
    /\ UNCHANGED <<inputVars, fs, rootfsDir, pullVars, idVars, exportVars>>

\* variant: a failed removal is requested a second time
MainReturnRetriesRemove ==
    /\ pc = "exported"
    /\ \/ /\ calls' = Append(Append(calls, removeContainer(cID, cName)),
                             removeContainer(cID, cName))
          /\ warnings' = Append(warnings, <<"Unable to remove the temporary container", ErrRemove>>)
       \/ /\ calls' = Append(calls, removeContainer(cID, cName))
          /\ UNCHANGED warnings
    /\ pc' = "done"
    /\ exitCode' = 0
    /\ UNCHANGED <<inputVars, fs, rootfsDir, pullVars, idVars, exportVars,
                   fatal>>

MainReturn ==
    /\ pc = "exported"
    /\ calls' = Append(calls, removeContainer(cID, cName))
    /\ \/ warnings' = Append(warnings, <<"Unable to remove the temporary container", ErrRemove>>)
       \/ UNCHANGED warnings
    /\ pc' = "done"
    /\ exitCode' = 0
    /\ UNCHANGED <<inputVars, fs, rootfsDir, pullVars, idVars, exportVars,
                   fatal>>

\* the steps that draw an input, on the inputs of each specification
PullImage == pc = "start" /\ PullImageFrom(Streams(MaxStream))

ExportContainer ==
    pc = "created" /\ ExportContainerFrom(Archives(MainEntries, MaxEntries))

PullImageFs == pc = "start" /\ PullImageFrom(Streams(MaxStreamFs))

ExportContainerFs ==
    pc = "created" /\ ExportContainerFrom(Archives(FsEntries, MaxFsEntries))

Next ==
    \/ PullImage
    \/ Decode
    \/ EnsureRootfsDir
    \/ CreateContainer
    \/ ExportContainer
    \/ Untar
    \/ MainReturn

Spec == Init /\ [][Next]_vars

(***************************************************************************)
(* The program as a running process: main is sequential code whose every   *)
(* runtime call returns, so whenever a step is possible one is taken       *)
(***************************************************************************)
InitLive == InitWith({<<>>, <<"a", ":", "a">>}, BOOLEAN, {UmaskDefault})

SpecLive == InitLive /\ [][Next]_vars /\ WF_vars(Next)

(***************************************************************************)
(* The same program on a fixed image and short progress streams, with the  *)
(* archives and the process's privileges and umask varied                  *)
(***************************************************************************)
InitFs == InitWith({<<"a", ":", "a">>}, BOOLEAN, {0, UmaskDefault})

NextFs ==
    \/ PullImageFs
    \/ Decode
    \/ EnsureRootfsDir
    \/ CreateContainer
    \/ ExportContainerFs
    \/ Untar
    \/ MainReturn

SpecFs == InitFs /\ [][NextFs]_vars

(***************************************************************************)
(* Observations used by the properties                                     *)
(***************************************************************************)
CallIdx(op) == {i \in 1..Len(calls) : calls[i].op = op}
Count(op) == Cardinality(CallIdx(op))

Terminated == exitCode # -1

Colons(str) == Cardinality({i \in 1..Len(str) : str[i] = ":"})

\* pullImage has returned
PullReturned == pc \notin {"start", "decoding"}

\* the first message of the progress stream that satisfies P, 0 when none
FirstMsgIn(S) ==
    IF \E i \in 1..Len(pullStream) : pullStream[i] \in S
    THEN CHOOSE i \in 1..Len(pullStream) :
            /\ pullStream[i] \in S
            /\ \A j \in 1..(i - 1) : pullStream[j] \notin S
    ELSE 0

IsPrefix(p, q) == Len(p) <= Len(q) /\ SubSeq(q, 1, Len(p)) = p

\* the paths that were created or whose node changed since the start
Touched == {p \in DOMAIN fs : p \notin DOMAIN fs0 \/ fs[p] # fs0[p]}

\* the four steps that decide the outcome, as functions of the inputs and
\* of what the runtime answered
PullSucceeds ==
    /\ parseImage(image).err = ""
    /\ pullOpened
    /\ \A i \in 1..Len(pullStream) : pullStream[i] = "ok"
EnsureSucceeds == ensureRootfsDir(fs0, rootfsDir, isRoot, umask).err = ""
CreateSucceeds == runtimeIDs # <<>>
ExportSucceeds ==
    /\ exportOpened
    /\ untar(ensureRootfsDir(fs0, rootfsDir, isRoot, umask).fs, rootfsDir,
             tarStream, isRoot, umask).err = ""

(***************************************************************************)
(* untar called twice with the same archive on a destination that starts   *)
(* empty (main.go:115-145 entered a second time after it returned nil).    *)
(* The run starts where exportContainer calls untar (main.go:157), after a *)
(* pull, a validation, a creation and an export request that succeeded.    *)
(***************************************************************************)
\* the archive's directory entries come before the file entries they hold,
\* no name is both a directory and a file, no entry lies below a file entry,
\* no name leaves the destination, and the stream ends properly
WellFormed(a) ==
    /\ a.end = "EOF"
    /\ \A i \in 1..Len(a.entries) :
         LET h == a.entries[i] IN
         /\ ".." \notin {h.name[k] : k \in 1..Len(h.name)}
         /\ (~h.isDir /\ Len(h.name) > 1) =>
               \E j \in 1..(i - 1) : /\ a.entries[j].isDir
                                     /\ a.entries[j].name = Front(h.name)
         /\ \A j \in 1..Len(a.entries) :
               /\ a.entries[j].name = h.name => a.entries[j].isDir = h.isDir
               /\ (IsPrefix(a.entries[j].name, h.name)
                      /\ a.entries[j].name # h.name) => a.entries[j].isDir

EmptyDest == [dest |-> <<"d">>,
              fs |-> Tree(<<"d">> :> Node("dir", DirPerm, ""))]

\* main where exportContainer calls untar (main.go:157), after a pull, a
\* validation of the destination, a creation and an export request that
\* succeeded
InitAtUntar(scenarios, archives, umasks) ==
    /\ image = <<"a", ":", "a">>
    /\ isRoot \in BOOLEAN
    /\ umask \in umasks
    /\ \E s \in scenarios :
         LET r == ensureRootfsDir(s.fs, s.dest, isRoot, umask) IN
         /\ r.err = ""
         /\ rootfsDir = s.dest
         /\ fs0 = s.fs
         /\ fs = r.fs
    /\ pc = "untar"
    /\ parsed = parseImage(image)
    /\ pullStream = <<>>
    /\ pullPos = 0
    /\ pullOpened = TRUE
    /\ pullCloses = 1
    /\ \E n \in UUIDs :
         LET id == CHOOSE c \in ContainerIDs : TRUE IN
         /\ cName = n
         /\ cID = id
         /\ runtimeIDs = <<id>>
         /\ calls = <<Call("ImagePull", parsed.name, parsed.tag, FALSE),
                      Call("ContainerCreate", <<n>>, image, FALSE),
                      Call("ContainerExport", <<id>>, <<>>, FALSE)>>
    /\ tarStream \in archives
    /\ tarPos = 0
    /\ exportOpened = TRUE
    /\ exportCloses = 0
    /\ handles = <<>>
    /\ untarRuns = <<>>
    /\ exitCode = -1
    /\ fatal = NoFatal
    /\ warnings = <<>>

InitTwice ==
    InitAtUntar({EmptyDest},
                {a \in Archives(FsEntries, MaxFsEntries) : WellFormed(a)},
                {0, UmaskDefault})

UntarAgain ==
    /\ pc = "exported"
    /\ Len(untarRuns) = 1
    /\ pc' = "untar"
    /\ tarPos' = 0
    /\ handles' = <<>>
    /\ UNCHANGED <<inputVars, fs, rootfsDir, pullVars, idVars, tarStream,
                   exportOpened, exportCloses, untarRuns, calls, exitCode,
                   fatal, warnings>>

NextTwice ==
    \/ Untar
    \/ UntarAgain

SpecTwice == InitTwice /\ [][NextTwice]_vars

(***************************************************************************)
(* untar on its own (main.go:115-145): one call, on every destination that *)
(* passed ensureRootfsDir and every archive                                *)
(***************************************************************************)
InitUntar ==
    InitAtUntar(Scenarios, Archives(FsEntries, MaxFsEntries), {0, UmaskDefault})

NextUntar == Untar

SpecUntar == InitUntar /\ [][NextUntar]_vars

(***************************************************************************)
(* C1: a run in which CreateContainer succeeded and the export then failed *)
(* (ContainerExport failed or untar failed) has called RemoveContainer     *)
(* exactly once, with the created id, when it terminates, and its fatal    *)
(* error is the export failure.                                            *)
(***************************************************************************)
C1_RemoveAfterFailedExport ==
    (Terminated /\ CreateSucceeds /\ fatal.step = "export") =>
        /\ Count("ContainerRemove") = 1
        /\ calls[Len(calls)] = Call("ContainerRemove", <<runtimeIDs[1]>>, <<>>, TRUE)
        /\ fatal.err[1] \in {"failed to export container", "failed to untar"}

(***************************************************************************)
(* C2: a terminated run in which pull, destination validation, create and  *)
(* export all succeeded ended with exit status 0 and called                *)
(* RemoveContainer exactly once, as its last request, after the export     *)
(* request, with force set and with the id that CreateContainer returned;  *)
(* and whenever RemoveContainer has been called the archive has been       *)
(* unpacked to its end and the export stream is closed.                    *)
(***************************************************************************)
C2_RemoveOnceAfterExport ==
    /\ (Terminated /\ PullSucceeds /\ EnsureSucceeds /\ CreateSucceeds
            /\ ExportSucceeds) =>
        /\ pc = "done"
        /\ exitCode = 0
        /\ Count("ContainerRemove") = 1
        /\ Count("ContainerCreate") = 1
        /\ Len(runtimeIDs) = 1
        /\ calls[Len(calls)] = Call("ContainerRemove", <<runtimeIDs[1]>>, <<>>, TRUE)
        /\ \E i \in CallIdx("ContainerExport") : i < Len(calls)
    /\ Count("ContainerRemove") > 0 =>
        /\ tarPos = Len(tarStream.entries)
        /\ tarStream.end = "EOF"
        /\ exportOpened
        /\ exportCloses = 1
        /\ fs = untar(ensureRootfsDir(fs0, rootfsDir, isRoot, umask).fs,
                      rootfsDir, tarStream, isRoot, umask).fs

C2_Witness ==
    /\ pc = "done"
    /\ Len(tarStream.entries) >= 1
    /\ Count("ContainerRemove") = 1

(***************************************************************************)
(* C3: when parsing the image, the pull, the destination validation or     *)
(* CreateContainer fails, the run is fatal at that step and no later       *)
(* runtime operation has been requested; RemoveContainer is never          *)
(* requested when no container was created.                                *)
(***************************************************************************)
C3_NoOperationAfterFailure ==
    /\ (pc # "start" /\ parseImage(image).err # "") =>
        /\ pc = "fatal" /\ fatal.step = "pull"
        /\ calls = <<>>
    /\ (PullReturned /\ ~PullSucceeds) =>
        /\ pc = "fatal" /\ fatal.step = "pull"
        /\ \A i \in 1..Len(calls) : calls[i].op = "ImagePull"
    /\ (pc \notin {"start", "decoding", "pulled"} /\ PullSucceeds
            /\ ~EnsureSucceeds) =>
        /\ pc = "fatal" /\ fatal.step = "rootfs"
        /\ \A i \in 1..Len(calls) : calls[i].op = "ImagePull"
    /\ (Count("ContainerCreate") > 0 /\ ~CreateSucceeds) =>
        /\ pc = "fatal" /\ fatal.step = "create"
        /\ Count("ContainerExport") = 0
        /\ Count("ContainerRemove") = 0
    /\ ~CreateSucceeds => Count("ContainerRemove") = 0

C3_Witness ==
    /\ pc = "fatal"
    /\ fatal.step = "create"
    /\ Count("ContainerCreate") = 1

(***************************************************************************)
(* C4 as claimed: when some message of the progress stream carries an      *)
(* embedded error, pullImage returns the error of the first such message,  *)
(* has decoded no message after it, and the run makes no further runtime   *)
(* call.                                                                   *)
(***************************************************************************)
C4_FirstEmbeddedErrorReturned ==
    (PullReturned /\ pullOpened /\ FirstMsgIn(MsgErrors) # 0) =>
        /\ pc = "fatal"
        /\ fatal = [step |-> "pull", err |-> <<pullStream[FirstMsgIn(MsgErrors)]>>]
        /\ pullPos = FirstMsgIn(MsgErrors)
        /\ Len(calls) = 1 /\ calls[1].op = "ImagePull"

(***************************************************************************)
(* C4 as amended: when the first message of the progress stream that       *)
(* either cannot be decoded or carries an embedded error is one that       *)
(* carries an embedded error, pullImage returns that error, has decoded no *)
(* message after it, and the run makes no further runtime call.            *)
(***************************************************************************)
C4_FirstFailureIsEmbeddedError ==
    LET k == FirstMsgIn(MsgErrors \cup {"bad"}) IN
    (PullReturned /\ pullOpened /\ k # 0 /\ pullStream[k] \in MsgErrors) =>
        /\ pc = "fatal"
        /\ fatal = [step |-> "pull", err |-> <<pullStream[k]>>]
        /\ pullPos = k
        /\ Len(calls) = 1 /\ calls[1].op = "ImagePull"

C4_Witness ==
    /\ pc = "fatal"
    /\ pullStream = <<"ok", "e1", "e2">>
    /\ fatal.err = <<"e1">>

(***************************************************************************)
(* C5: pullImage returns nil exactly when the image parses, ImagePull      *)
(* returns a stream and every message of the stream decodes and carries no *)
(* error; it has then decoded every message of the stream.                 *)
(***************************************************************************)
C5_PullSuccessIff ==
    PullReturned =>
        /\ (fatal.step # "pull") <=>
              /\ Colons(image) <= 1 /\ image # <<>>
              /\ pullOpened
              /\ \A i \in 1..Len(pullStream) : pullStream[i] \notin MsgErrors \cup {"bad"}
        /\ (fatal.step # "pull") => pullPos = Len(pullStream)

C5_Witness ==
    /\ pc = "pulled"
    /\ Len(pullStream) >= 2
    /\ pullPos = Len(pullStream)

(***************************************************************************)
(* C6 as claimed: every image string with at most one colon parses to      *)
(* (name, tag) with the string equal to name, or to name ":" tag when it   *)
(* has a colon; every string with two or more colons is rejected as        *)
(* invalid.                                                                *)
(***************************************************************************)
ParseRoundTrip ==
    /\ parsed.err = ""
    /\ IF Colons(image) = 0
       THEN parsed.name = image /\ parsed.tag = <<>>
       ELSE image = parsed.name \o <<":">> \o parsed.tag

C6_ParseAllStrings ==
    pc # "start" =>
        /\ Colons(image) <= 1 => ParseRoundTrip
        /\ Colons(image) >= 2 => parsed.err = ErrInvalidImage

(***************************************************************************)
(* C6 as amended: every non-empty image string with at most one colon      *)
(* parses to (name, tag) with the string equal to name, or to name ":" tag *)
(* when it has a colon; every string with two or more colons is rejected   *)
(* as invalid.                                                             *)
(***************************************************************************)
C6_ParseNonEmptyStrings ==
    pc # "start" =>
        /\ (Colons(image) <= 1 /\ image # <<>>) => ParseRoundTrip
        /\ Colons(image) >= 2 => parsed.err = ErrInvalidImage

C6_Witness ==
    /\ pc # "start"
    /\ image = <<"a", ":", "a">>
    /\ parsed = [name |-> <<"a">>, tag |-> <<"a">>, err |-> ""]

(***************************************************************************)
(* C7: parseImage never succeeds with an empty name, and ImagePull is      *)
(* never requested with an empty image name.                               *)
(***************************************************************************)
C7_NoEmptyName ==
    /\ parsed.err = "" => parsed.name # <<>>
    /\ \A i \in CallIdx("ImagePull") : calls[i].a # <<>>

(***************************************************************************)
(* C8 as claimed: when the destination path does not exist,                *)
(* ensureRootfsDir succeeds and creates exactly one directory, at that     *)
(* path; when it is a regular file, ensureRootfsDir fails with the         *)
(* not-a-directory error and leaves the file system unchanged.             *)
(***************************************************************************)
\* the file system ensureRootfsDir left: nothing writes between its return
\* and the first entry of the archive
FsAfterEnsure == pc \in {"ensured", "created"} \/ fatal.step \in {"rootfs", "create"}

CreatedOnlyDest ==
    /\ fatal.step # "rootfs"
    /\ DOMAIN fs = DOMAIN fs0 \cup {rootfsDir}
    /\ fs[rootfsDir].kind = "dir"
    /\ \A p \in DOMAIN fs0 : fs[p] = fs0[p]

FileDestRejected ==
    (rootfsDir \in DOMAIN fs0 /\ fs0[rootfsDir].kind = "file") =>
        /\ fatal.step = "rootfs"
        /\ fatal.err = <<ErrNotDir>>
        /\ fs = fs0

C8_EnsureAnyMissingPath ==
    FsAfterEnsure =>
        /\ rootfsDir \notin DOMAIN fs0 => CreatedOnlyDest
        /\ FileDestRejected

(***************************************************************************)
(* C8 as amended: when the destination path does not exist and its parent  *)
(* is an existing directory that the process may search and write,         *)
(* ensureRootfsDir succeeds and creates exactly one directory, at that     *)
(* path; when it is a regular file, ensureRootfsDir fails with the         *)
(* not-a-directory error and leaves the file system unchanged.             *)
(***************************************************************************)
ParentUsable ==
    LET par == Front(rootfsDir) IN
    /\ \A k \in 0..Len(par) :
          /\ SubSeq(par, 1, k) \in DOMAIN fs0
          /\ fs0[SubSeq(par, 1, k)].kind = "dir"
          /\ isRoot \/ Bit(fs0[SubSeq(par, 1, k)].mode, 6) = 1
    /\ isRoot \/ Bit(fs0[par].mode, 7) = 1

C8_EnsureMissingPathUsableParent ==
    FsAfterEnsure =>
        /\ (rootfsDir \notin DOMAIN fs0 /\ ParentUsable) => CreatedOnlyDest
        /\ FileDestRejected

C8_Witness ==
    /\ pc = "ensured"
    /\ rootfsDir = <<"m", "d">>
    /\ rootfsDir \notin DOMAIN fs0
    /\ rootfsDir \in DOMAIN fs

(***************************************************************************)
(* C9: a terminated run has exit status 0 exactly when pull, destination   *)
(* validation, create and export all succeeded; a failed RemoveContainer   *)
(* adds one warning and nothing else: the run that warns still exits with  *)
(* status 0 and no fatal error, and the step a fatal error reports is      *)
(* never the removal.                                                      *)
(***************************************************************************)
C9_OutcomeIgnoresRemove ==
    /\ Terminated =>
        /\ (exitCode = 0) <=>
              (PullSucceeds /\ EnsureSucceeds /\ CreateSucceeds /\ ExportSucceeds)
        /\ (exitCode # 0) <=> (pc = "fatal")
    /\ fatal.step \in {"", "pull", "rootfs", "create", "export"}
    /\ Len(warnings) <= Count("ContainerRemove")
    /\ warnings # <<>> => (pc = "done" /\ exitCode = 0 /\ fatal = NoFatal)

C9_Witness ==
    /\ pc = "done"
    /\ exitCode = 0
    /\ Len(warnings) = 1

(***************************************************************************)
(* C10: every path that untar creates or writes lies at or below the       *)
(* destination directory, also when an entry's name has ".." segments.     *)
(***************************************************************************)
C10_NoEscape ==
    \A p \in Touched : IsPrefix(rootfsDir, p)

(***************************************************************************)
(* C11: untar is idempotent on every well-formed archive, whatever the     *)
(* entries' permission modes: called on an empty destination and then once *)
(* more on what it left, it returns no error either time, and the second   *)
(* call leaves every path with the content and the mode the first left.    *)
(***************************************************************************)
C11_UntarIdempotent ==
    /\ \A i \in 1..Len(untarRuns) : untarRuns[i].err = ""
    /\ Len(untarRuns) = 2 => untarRuns[2].fs = untarRuns[1].fs

(***************************************************************************)
(* C12: after untar returned nil on a well-formed archive, the destination *)
(* mirrors the archive: every entry's path below the destination exists    *)
(* with the entry's kind and the entry's permission mode, and every file   *)
(* holds the content of the last entry that names it.                      *)
(***************************************************************************)
LastNamed(a, i) ==
    CHOOSE j \in i..Len(a.entries) :
        /\ a.entries[j].name = a.entries[i].name
        /\ \A k \in (j + 1)..Len(a.entries) :
              a.entries[k].name # a.entries[i].name

C12_DestinationMirrorsArchive ==
    (Len(untarRuns) = 1 /\ untarRuns[1].err = "" /\ WellFormed(tarStream)) =>
        \A i \in 1..Len(tarStream.entries) :
            LET h == tarStream.entries[i]
                p == Join(rootfsDir, h.name)
            IN  /\ p \in DOMAIN fs
                /\ fs[p].kind = (IF h.isDir THEN "dir" ELSE "file")
                /\ fs[p].mode = h.mode
                /\ ~h.isDir =>
                      fs[p].content =
                          tarStream.entries[LastNamed(tarStream, i)].content

(***************************************************************************)
(* C13: the requests to the runtime come in the fixed order PullImage,     *)
(* CreateContainer, ExportContainer, RemoveContainer, each at most once    *)
(* and nothing else; each is sent only after the step before it returned   *)
(* successfully; the destination is validated after the pull returned and  *)
(* before the container is created.                                        *)
(***************************************************************************)
OpsOrder ==
    <<"ImagePull", "ContainerCreate", "ContainerExport", "ContainerRemove">>

C13_FixedOrderNoRetry ==
    /\ Len(calls) <= Len(OpsOrder)
    /\ \A i \in 1..Len(calls) : calls[i].op = OpsOrder[i]
    /\ pc \in {"start", "decoding", "pulled"} =>
          /\ fs = fs0
          /\ Count("ContainerCreate") = 0
    /\ (fs # fs0 \/ pc = "ensured" \/ fatal.step = "rootfs") =>
          /\ PullSucceeds
          /\ pullPos = Len(pullStream)
    /\ Count("ContainerCreate") > 0 =>
          /\ PullSucceeds
          /\ pullPos = Len(pullStream)
          /\ EnsureSucceeds
          /\ rootfsDir \in DOMAIN fs
          /\ fs[rootfsDir].kind = "dir"
    /\ Count("ContainerExport") > 0 => CreateSucceeds
    /\ Count("ContainerRemove") > 0 =>
          /\ ExportSucceeds
          /\ tarPos = Len(tarStream.entries)
          /\ pc = "done"

C13_Witness ==
    /\ pc = "done"
    /\ [i \in 1..Len(calls) |-> calls[i].op] = OpsOrder
    /\ fs # fs0

(***************************************************************************)
(* C14: untar takes the entries in stream order and stops at the first     *)
(* decode or I/O error: it returns that error, every entry before the      *)
(* failing one has been applied and stays applied, and nothing is created  *)
(* or written for an entry after it.                                       *)
(***************************************************************************)
\* the file system untar starts from in main
FsBeforeUntar == ensureRootfsDir(fs0, rootfsDir, isRoot, umask).fs

PrefixArchive(a, k) ==
    [entries |-> SubSeq(a.entries, 1, k),
     end |-> IF k = Len(a.entries) THEN a.end ELSE "EOF"]

\* untar on the first k entries of the exported archive
UntarOf(k) ==
    untar(FsBeforeUntar, rootfsDir, PrefixArchive(tarStream, k), isRoot, umask)

EntryPath(i) == Join(rootfsDir, tarStream.entries[i].name)

C14_StopsAtFirstError ==
    exportOpened =>
        LET k == tarPos
            before == FsBeforeUntar
            u == [i \in 0..k |-> UntarOf(i)]
            path == [i \in 1..k |-> EntryPath(i)]
            err == [i \in 1..k |->
                      untarEntry(u[i - 1].fs, rootfsDir, tarStream.entries[i],
                                 DataOK(tarStream, i), isRoot, umask).err]
        IN
        /\ \A i \in 1..(k - 1) :
              /\ err[i] = ""
              /\ path[i] \in DOMAIN fs
              /\ fs[path[i]].kind =
                    (IF tarStream.entries[i].isDir THEN "dir" ELSE "file")
        /\ fs = u[k].fs
        /\ \A p \in DOMAIN fs :
              (p \notin DOMAIN before \/ fs[p] # before[p]) =>
                  \E i \in 1..k : IsPrefix(p, path[i])
        /\ (k >= 1 /\ untarRuns = <<>>) => err[k] = ""
        /\ untarRuns # <<>> =>
              /\ untarRuns[1].fs = fs
              /\ untarRuns[1].err = u[k].err
              /\ untarRuns[1].err = "" => k = Len(tarStream.entries)
              /\ (k >= 1 /\ err[k] # "") => untarRuns[1].err = err[k]
              /\ untarRuns[1].err # "" =>
                    fatal = [step |-> "export",
                             err |-> <<"failed to untar", untarRuns[1].err>>]

\* the first of two entries failed: the second one left no trace
C14_Witness ==
    /\ Len(tarStream.entries) = 2
    /\ tarPos = 1
    /\ untarRuns # <<>>
    /\ untarRuns[1].err # ""
    /\ EntryPath(2) \notin DOMAIN fs
    /\ untarEntry(fs, rootfsDir, tarStream.entries[2], TRUE, isRoot, umask).err = ""

(***************************************************************************)
(* C15: every stream the runtime returned is closed exactly once by the    *)
(* time the function that opened it has returned, on every return path:    *)
(* the progress stream in pullImage (end of stream, decode error, embedded *)
(* error), the export stream in exportContainer (untar succeeded or        *)
(* failed); a stream is never closed before that, and nothing is closed    *)
(* when the runtime call that would have opened it failed.                 *)
(***************************************************************************)
C15_StreamsClosedOnce ==
    /\ ~pullOpened => pullCloses = 0
    /\ pc = "decoding" => pullCloses = 0
    /\ (pullOpened /\ PullReturned) => pullCloses = 1
    /\ ~exportOpened => exportCloses = 0
    /\ pc = "untar" => exportCloses = 0
    /\ (exportOpened /\ pc # "untar") => exportCloses = 1

\* the unpack failed, after a pull that ended normally
C15_Witness ==
    /\ fatal.step = "export"
    /\ fatal.err[1] = "failed to untar"
    /\ exportOpened
    /\ exportCloses = 1
    /\ pullCloses = 1

(***************************************************************************)
(* C16: during untar the handle of a file entry is released once the       *)
(* entry's content is copied, before the next entry is read, so at most    *)
(* one destination file handle is open at any point of an unpack.          *)
(***************************************************************************)
OpenHandles == {i \in 1..Len(handles) : handles[i].closes = 0}

C16_AtMostOneHandleOpen == Cardinality(OpenHandles) <= 1

(***************************************************************************)
(* C17: untar only adds to the destination: no path that existed when it   *)
(* started is removed or replaced by something of another kind, the        *)
(* destination directory and every other directory that existed stay as    *)
(* they were, and every file that existed and is not the path of an entry  *)
(* read so far keeps its kind, mode and content.                           *)
(***************************************************************************)
C17_OnlyPopulates ==
    exportOpened =>
        LET before == FsBeforeUntar
            named == {EntryPath(i) : i \in 1..tarPos}
        IN  \A p \in DOMAIN before :
                /\ p \in DOMAIN fs
                /\ fs[p].kind = before[p].kind
                /\ fs[p].kind = "dir" => fs[p] = before[p]
                /\ p \notin named => fs[p] = before[p]

\* untar wrote an existing file and left another existing file alone
C17_Witness ==
    /\ untarRuns # <<>>
    /\ untarRuns[1].err = ""
    /\ \E p \in DOMAIN FsBeforeUntar :
          /\ \E i \in 1..tarPos : EntryPath(i) = p
          /\ fs[p] # FsBeforeUntar[p]
    /\ \E p \in DOMAIN FsBeforeUntar :
          /\ FsBeforeUntar[p].kind = "file"
          /\ \A i \in 1..tarPos : EntryPath(i) # p
          /\ fs[p] = FsBeforeUntar[p]

(***************************************************************************)
(* C18: every run terminates: with a finite progress stream, a finite      *)
(* archive and runtime calls that return, main eventually exits, with      *)
(* status 0 or through a fatal error; it never stays in pulling or in      *)
(* exporting for ever.                                                     *)
(***************************************************************************)
C18_Terminates == <>Terminated

\* a run that ended after decoding progress messages and unpacking an entry
C18_Witness ==
    /\ pc = "done"
    /\ Terminated
    /\ pullPos = MaxStream
    /\ tarPos >= 1

(***************************************************************************)
(* C19: when untar has returned, with nil or with an error at any entry,   *)
(* every destination file it opened has been closed exactly once; no file  *)
(* is closed twice, and the files opened are those of the file entries     *)
(* read so far whose os.OpenFile succeeded.                                *)
(***************************************************************************)
\* the entries read so far for which untar opened a file
OpenedEntries ==
    {i \in 1..tarPos :
        untarEntry(UntarOf(i - 1).fs, rootfsDir, tarStream.entries[i],
                   DataOK(tarStream, i), isRoot, umask).opened}

C19_HandlesClosedAtReturn ==
    /\ \A i \in 1..Len(handles) : handles[i].closes <= 1
    /\ exportOpened =>
          /\ Len(handles) = Cardinality(OpenedEntries)
          /\ \A i \in 1..Len(handles) :
                \E j \in OpenedEntries : handles[i].path = EntryPath(j)
    /\ untarRuns # <<>> => \A i \in 1..Len(handles) : handles[i].closes = 1

\* untar failed at its second entry with two files opened
C19_Witness ==
    /\ untarRuns # <<>>
    /\ untarRuns[1].err # ""
    /\ Len(handles) = 2
    /\ \A i \in 1..Len(handles) : handles[i].closes = 1

(***************************************************************************)
(* C20: untar creates missing parents only for directory entries.  A file  *)
(* entry whose parent directory exists neither from before nor from an     *)
(* earlier entry makes untar return an error at that entry: no parent is   *)
(* created and the file is not written, the file system stays as the       *)
(* entries before it left it.  A directory entry in the same situation     *)
(* that succeeds has created its parents.                                  *)
(***************************************************************************)
ParentMissing(k) == Front(EntryPath(k)) \notin DOMAIN UntarOf(k - 1).fs

C20_FileEntryNeedsParent ==
    (exportOpened /\ tarPos >= 1 /\ ParentMissing(tarPos)) =>
        IF tarStream.entries[tarPos].isDir
        THEN untarRuns = <<>> =>
                /\ Front(EntryPath(tarPos)) \in DOMAIN fs
                /\ fs[Front(EntryPath(tarPos))].kind = "dir"
                /\ EntryPath(tarPos) \in DOMAIN fs
        ELSE /\ untarRuns # <<>>
             /\ untarRuns[1].err \in {"ENOENT", "ENOTDIR", "EACCES"}
             /\ fatal = [step |-> "export",
                         err |-> <<"failed to untar", untarRuns[1].err>>]
             /\ fs = UntarOf(tarPos - 1).fs
             /\ EntryPath(tarPos) \notin DOMAIN fs
             /\ Front(EntryPath(tarPos)) \notin DOMAIN fs

\* a file entry below a directory nothing created, after an entry that
\* was applied
C20_Witness ==
    /\ exportOpened
    /\ tarPos = 2
    /\ ~tarStream.entries[2].isDir
    /\ ParentMissing(2)
    /\ untarRuns # <<>>
    /\ untarRuns[1].err = "ENOENT"
    /\ fs # FsBeforeUntar

====
